---- MODULE Spec2Model ----
(***************************************************************************)
(* Result-caching layer of obiKEGG (caching.py): the cached_wrapper around *)
(* an expensive operation of a host object, its key derivation, the        *)
(* validity check against conf.params["cache.invalidate"], and the         *)
(* Sqlite3Store backend the host supplies through cache_store().           *)
(*                                                                         *)
(* Time is counted in seconds of local time; a datetime is the number of   *)
(* seconds since the local epoch, a date is a day number.                  *)
(***************************************************************************)
EXTENDS Integers, Sequences, FiniteSets, TLC

VARIABLES
    store,      \* the rows of the cache table: key -> pickled cache_entry
    now,        \* the clock datetime.now() reads
    advances,   \* how often the clock has been moved
    policy,     \* conf.params["cache.invalidate"]
    host,       \* which attributes the host instance has
    signal,     \* what host.last_modified(args) returns when it is asked
    opcount,    \* number of wrapper operations performed so far
    last,       \* what the most recent wrapper operation did and returned
    unchanged,  \* keys stored by a miss, with setting, signal and row as they were
    keyrun,     \* a run of key_from_args on drawn argument tuples
    scope,      \* the backend handles the wrapper operations open and close
    caller,     \* which operation of which class the most recent call was made on
    files,      \* the directories and files clear_cache works on
    procs,      \* two callers inside __call__ at once, and their backend
    trip,       \* an entry on its way into a backend and out again
    attached,   \* a host instance and what the descriptors have attached to it
    norm,       \* an entry with a bare date on its way through is_entry_valid
    disk        \* a cache file, the connection open on it, and what was asked of it

vars == <<store, now, advances, policy, host, signal, opcount, last, unchanged,
          keyrun, scope, caller, files, procs, trip, attached, norm, disk>>

\* what the operations of the wrapper leave alone
apart == <<keyrun, scope, caller, files, procs, trip, attached, norm, disk>>

----------------------------------------------------------------------------
(* Bounds of the exploration *)

MaxOps == 2
MaxAdvance == 1
MaxArity == 2

----------------------------------------------------------------------------
(* Time *)

Day == 86400
Week == 7 * Day
\* datetime(year, month, day, 1, 1, 1): 01:01:01 of that day
DateOffset == 3600 + 60 + 1
\* the instant the module was imported
SESSION_START == 10 * Day + Day \div 2

Midnight(t) == (t \div Day) * Day
DayOf(t) == t \div Day

\* Python values that can sit in cache_entry.mtime or come back from
\* host.last_modified(args)
None == [kind |-> "None", t |-> 0]
DateTime(t) == [kind |-> "datetime", t |-> t]
Date(d) == [kind |-> "date", t |-> d]
\* a string; t is the instant it spells when it has the layout
\* "%Y %m %d %H %M %S"
Str(t) == [kind |-> "str", t |-> t]
\* an exception raised instead of a value
Raised(e) == [kind |-> e, t |-> 0]

\* isinstance(x, datetime); isinstance(x, date) (datetime subclasses date)
IsDateTime(x) == x.kind = "datetime"
IsDate(x) == x.kind \in {"datetime", "date"}

\* x.year, x.month, x.day of a date or a datetime
DayNumber(x) == IF x.kind = "datetime" THEN DayOf(x.t) ELSE x.t

----------------------------------------------------------------------------
(* Key derivation *)

Digits == <<"0", "1", "2", "3", "4", "5", "6", "7", "8", "9">>

\* repr of a small non-negative int
ReprInt(n) == <<Digits[n + 1]>>

RECURSIVE JoinRepr(_)
\* ", ".join(repr(x) for x in args), args non-empty
JoinRepr(args) ==
    IF Len(args) = 1 THEN ReprInt(args[1])
    ELSE ReprInt(args[1]) \o <<",", " ">> \o JoinRepr(Tail(args))

\* repr of a tuple of ints: "()", "(1,)", "(1, 2)"
ReprTuple(args) ==
    IF Len(args) = 0 THEN <<"(", ")">>
    ELSE IF Len(args) = 1 THEN <<"(">> \o ReprInt(args[1]) \o <<",", ")">>
    ELSE <<"(">> \o JoinRepr(args) \o <<")">>

\* a plausible slip: the arguments are put in canonical order first
RECURSIVE InsertSorted(_, _)
InsertSorted(x, s) ==
    IF Len(s) = 0 THEN <<x>>
    ELSE IF x <= s[1] THEN <<x>> \o s
    ELSE <<s[1]>> \o InsertSorted(x, Tail(s))

RECURSIVE SortedArgs(_)
SortedArgs(args) ==
    IF Len(args) = 0 THEN <<>> ELSE InsertSorted(args[1], SortedArgs(Tail(args)))

key_from_args_sorted(name, args, kwargs) == name \o ReprTuple(SortedArgs(args))

\* a plausible slip: the keyword arguments take part in the key
key_from_args_kwargs(name, args, kwargs) ==
    name \o ReprTuple(args) \o (IF kwargs = "None" THEN <<>> ELSE <<"{", "}">>)

\* cached_wrapper.key_from_args: function.__name__ + repr(args); kwargs unused
key_from_args(name, args, kwargs) == name \o ReprTuple(args)

RECURSIVE rstrip_paren(_, _)
\* a plausible slip: the opening parenthesis is stripped with the rest
rstrip_paren(s, chars) ==
    IF Len(s) > 0 /\ s[Len(s)] \in chars \cup {"("}
    THEN rstrip_paren(SubSeq(s, 1, Len(s) - 1), chars)
    ELSE s

RECURSIVE rstrip(_, _)
\* str.rstrip(chars)
rstrip(s, chars) ==
    IF Len(s) > 0 /\ s[Len(s)] \in chars THEN rstrip(SubSeq(s, 1, Len(s) - 1), chars)
    ELSE s

\* str.startswith(prefix)
startswith(s, prefix) ==
    /\ Len(prefix) <= Len(s)
    /\ SubSeq(s, 1, Len(prefix)) = prefix

----------------------------------------------------------------------------
(* Backend: Sqlite3Store *)

\* cache_entry(value, mtime, expires)
cache_entry(value, mtime, expires) ==
    [value |-> value, mtime |-> mtime, expires |-> expires]

\* pickle.dumps / pickle.loads of a cache_entry: the row text is the
\* class name followed by the attributes
dumps(entry) == <<"cache_entry", entry.value, entry.mtime, entry.expires>>
loads(row) == [value |-> row[2], mtime |-> row[3], expires |-> row[4]]

\* DictMixin.__contains__ over Sqlite3Store.__getitem__
Contains(st, key) == key \in DOMAIN st

\* Sqlite3Store.__getitem__ (key present)
GetItem(st, key) == loads(st[key])

\* Sqlite3Store.__setitem__: INSERT OR REPLACE, commit
SetItem(st, key, entry) ==
    [k \in (DOMAIN st) \cup {key} |-> IF k = key THEN dumps(entry) ELSE st[k]]

\* a plausible slip: the DELETE has no WHERE clause
DelItem_all(st, key) == [k \in {} |-> <<>>]

\* Sqlite3Store.__delitem__: DELETE ... WHERE key=?, commit
DelItem(st, key) == [k \in (DOMAIN st) \ {key} |-> st[k]]

----------------------------------------------------------------------------
(* The host object and the wrapped operation *)

\* names of the wrapped operations (function.__name__)
Names == {<<"f">>}

\* the positional argument tuples the callers use
ArgVals == {1, 2}
CallArgs == {<<1, 2>>, <<2, 1>>}

\* results the wrapped operation can compute
Values == {"v1", "v2"}

\* values a caller pre-seeds with memoize
Seeds == {"s1"}

\* a host of kind "api" has cache_store() and last_modified(args); a host of
\* kind "bare" has cache_store() only
Hosts == {"api", "bare"}
HasLastModified(h) == h = "api"

\* what host.last_modified(args) can return: nothing, or the instant the
\* record behind the call last changed (the host's state, variable signal)
Signals == {None, DateTime(SESSION_START)}

Policies == {"always", "session", "daily", "weekly", "other"}

----------------------------------------------------------------------------
(* Validity of a stored entry *)

\* cached_wrapper.min_timestamp: datetime.fromtimestamp(0)
min_timestamp(args) == 0

\* cached_wrapper.last_modified_from_args: the host's method is called and
\* its result dropped; the function has no return statement
last_modified_from_args(h, sig) ==
    IF HasLastModified(h) THEN None ELSE Raised("AttributeError")

\* cached_wrapper.is_entry_valid from the floor check on, for an mtime
\* already made a full timestamp, at instant t under setting pol: "True",
\* "False", or the name of the exception raised
compare_threshold(mtime, args, h, sig, pol, t) ==
    LET last_modified == last_modified_from_args(h, sig)
        le(a, b) == IF a <= b THEN "True" ELSE "False"
    IN  IF min_timestamp(args) > mtime THEN "False"
        ELSE IF last_modified.kind = "AttributeError" THEN "AttributeError"
        ELSE IF IsDate(last_modified)
             THEN le(DayNumber(last_modified) * Day + DateOffset, mtime)
        ELSE IF last_modified.kind = "str"
             THEN le(last_modified.t, mtime)
        ELSE IF pol = "always" THEN "False"
        ELSE IF pol = "session" THEN le(SESSION_START, mtime)
        ELSE IF pol = "daily" THEN le(Midnight(t), mtime)
        ELSE IF pol = "weekly" THEN le(t - Week, mtime)
        ELSE "TypeError"     \* None <= mtime

\* a plausible slip: the type of the entry's mtime is not looked at
is_entry_valid_untyped(entry, args, h, sig, pol, t) ==
    compare_threshold(IF IsDate(entry.mtime) /\ ~IsDateTime(entry.mtime)
                      THEN entry.mtime.t * Day + DateOffset ELSE entry.mtime.t,
                      args, h, sig, pol, t)

\* cached_wrapper.is_entry_valid
is_entry_valid(entry, args, h, sig, pol, t) ==
    IF IsDateTime(entry.mtime)
    THEN compare_threshold(entry.mtime.t, args, h, sig, pol, t)
    ELSE IF IsDate(entry.mtime)
    THEN compare_threshold(entry.mtime.t * Day + DateOffset, args, h, sig, pol, t)
    ELSE "False"

----------------------------------------------------------------------------
(* Wrapper operations *)

NoRows == [k \in {} |-> <<>>]

\* in place of the entry's mtime when the key has no row
Absent == [kind |-> "absent", t |-> 0]

\* what an operation leaves in last: the operation and its arguments, the
\* key it derived, the mtime of the entry it found under the key, how it
\* ended, the exception that reached the caller, the value returned, the
\* value the wrapped operation computed, and how often the wrapped
\* operation and the backend's __setitem__ ran
Result(op, args, key, found, outcome, err, rval, computed, invoked, writes) ==
    [op |-> op, args |-> args, key |-> key, found |-> found,
     outcome |-> outcome, err |-> err, rval |-> rval, computed |-> computed,
     invoked |-> invoked, writes |-> writes]

\* __call__ when is_entry_valid raises: the exception leaves the with block
Failing(st, key, args, entry, exc) ==
    [store |-> st,
     last |-> Result("call", args, key, entry.mtime, "error", exc, "none", "none", 0, 0)]

\* a plausible slip: a hit refreshes the entry's timestamp
Hit_touch(st, key, args, entry, t) ==
    [store |-> SetItem(st, key, cache_entry(entry.value, DateTime(t), None)),
     last |-> Result("call", args, key, entry.mtime, "hit", "none", entry.value, "none", 0, 1)]

\* __call__ with valid still True: rval = entry.value is returned
Hit(st, key, args, entry, t) ==
    [store |-> st,
     last |-> Result("call", args, key, entry.mtime, "hit", "none", entry.value, "none", 0, 0)]

\* a plausible slip: a failed recomputation evicts the entry it found
Raising_evict(st, key, args, found) ==
    [store |-> [k \in (DOMAIN st) \ {key} |-> st[k]],
     last |-> Result("call", args, key, found, "raise", "Exception", "none", "none", 1, 0)]

\* __call__ when the wrapped operation raises: nothing is stored
Raising(st, key, args, found) ==
    [store |-> st,
     last |-> Result("call", args, key, found, "raise", "Exception", "none", "none", 1, 0)]

\* a plausible slip: the fresh value is returned and never stored
Missed_nowrite(st, key, args, found, fres, t) ==
    [store |-> st,
     last |-> Result("call", args, key, found, "miss", "none", fres, fres, 1, 0)]

\* a plausible slip: the entry that is replaced hands on its timestamp
Missed_oldstamp(st, key, args, found, fres, t) ==
    [store |-> SetItem(st, key, cache_entry(fres, IF found = Absent THEN DateTime(t) ELSE found, None)),
     last |-> Result("call", args, key, found, "miss", "none", fres, fres, 1, 1)]

\* __call__ with valid False and the wrapped operation returning fres:
\* store[key] = cache_entry(rval, datetime.now(), None); return rval
Missed(st, key, args, found, fres, t) ==
    [store |-> SetItem(st, key, cache_entry(fres, DateTime(t), None)),
     last |-> Result("call", args, key, found, "miss", "none", fres, fres, 1, 1)]

\* the body of cached_wrapper.__call__ on backend st at instant t; fres is
\* what the wrapped operation does when it is invoked: it returns a value
\* of Values or it raises
CallEffect(st, key, args, h, sig, pol, t, fres) ==
    IF ~Contains(st, key)
    THEN IF fres = "raise" THEN Raising(st, key, args, Absent)
         ELSE Missed(st, key, args, Absent, fres, t)
    ELSE LET entry == GetItem(st, key)
             verdict == is_entry_valid(entry, args, h, sig, pol, t)
         IN  IF verdict \in {"AttributeError", "TypeError"}
             THEN Failing(st, key, args, entry, verdict)
             ELSE IF verdict = "True" THEN Hit(st, key, args, entry, t)
             ELSE IF fres = "raise" THEN Raising(st, key, args, entry.mtime)
             ELSE Missed(st, key, args, entry.mtime, fres, t)

\* cached_wrapper.__call__(*args)
Call(name, args, fres) ==
    /\ opcount < MaxOps
    /\ LET key == key_from_args(name, args, "None")
           eff == CallEffect(store, key, args, host, signal, policy, now, fres)
       IN  /\ store' = eff.store
           /\ last' = eff.last
           /\ unchanged' = IF eff.last.outcome = "miss" THEN unchanged \cup {key}
                           ELSE unchanged
    /\ opcount' = opcount + 1
    /\ UNCHANGED <<now, advances, policy, host, signal, apart>>

\* the timestamps a caller of memoize passes
Timestamps(t) ==
    { None, DateTime(SESSION_START - 1),
      DateTime(Midnight(t) - 1), DateTime(Midnight(t)),
      DateTime(t - Week - 1), DateTime(t - Week),
      Date(DayOf(t)), Str(t) }

\* cached_wrapper.memoize(args, kwargs, value, timestamp)
Memoize(name, args, kwargs, value, timestamp) ==
    /\ opcount < MaxOps
    /\ LET key == key_from_args(name, args, kwargs)
           mtime == IF timestamp = None THEN DateTime(now) ELSE timestamp
       IN  /\ store' = SetItem(store, key, cache_entry(value, mtime, None))
           /\ unchanged' = unchanged \ {key}
           /\ last' = Result("memoize", args, key, Absent, "stored", "none", "none", "none", 0, 1)
    /\ opcount' = opcount + 1
    /\ UNCHANGED <<now, advances, policy, host, signal, apart>>

\* cached_wrapper.invalidate_args(args) through invalidate_key(key)
InvalidateArgs(name, args) ==
    /\ opcount < MaxOps
    /\ LET key == key_from_args(name, args, "None")
       IN  /\ store' = DelItem(store, key)
           /\ unchanged' = unchanged \ {key}
           /\ last' = Result("invalidate_args", args, key,
                             IF Contains(store, key) THEN GetItem(store, key).mtime ELSE Absent,
                             "deleted", "none", "none", "none", 0, 0)
    /\ opcount' = opcount + 1
    /\ UNCHANGED <<now, advances, policy, host, signal, apart>>

\* cached_wrapper.invalidate_all()
InvalidateAll(name) ==
    /\ opcount < MaxOps
    /\ LET prefix == rstrip(key_from_args(name, <<>>, "None"), {",", ")"})
           doomed == {k \in DOMAIN store : startswith(k, prefix)}
       IN  /\ store' = [k \in (DOMAIN store) \ doomed |-> store[k]]
           /\ unchanged' = unchanged \ doomed
           /\ last' = Result("invalidate_all", <<>>, prefix, Absent, "deleted", "none", "none", "none", 0, 0)
    /\ opcount' = opcount + 1
    /\ UNCHANGED <<now, advances, policy, host, signal, apart>>

----------------------------------------------------------------------------
(* The environment: configuration, clock, remote source *)

\* conf.params["cache.invalidate"] is set to another value
SetPolicy(p) ==
    /\ p # policy
    /\ policy' = p
    /\ unchanged' = {}
    /\ UNCHANGED <<store, now, advances, host, signal, opcount, last, apart>>

\* time passes
Delays == {Day, Week}
Advance(d) ==
    /\ advances < MaxAdvance
    /\ now' = now + d
    /\ advances' = advances + 1
    /\ UNCHANGED <<store, policy, host, signal, opcount, last, unchanged, apart>>

\* the record behind the calls changes at the remote source
SetSignal(sig) ==
    /\ HasLastModified(host)
    /\ sig # signal
    /\ signal' = sig
    /\ unchanged' = {}
    /\ UNCHANGED <<store, now, advances, policy, host, opcount, last, apart>>

----------------------------------------------------------------------------
(* Specification of the wrapper *)

Idle == [pc |-> "idle"]

NoResult == Result("none", <<>>, <<>>, Absent, "none", "none", "none", "none", 0, 0)

\* rows a persistent file can hold when the process starts: one written by
\* an earlier session, one written without a timestamp (cache_entry(value))
LeftOver ==
    { dumps(cache_entry("v1", DateTime(SESSION_START - Day), None)),
      dumps(cache_entry("v1", None, None)) }

Init ==
    /\ store \in {NoRows} \cup
                 {[k \in {key_from_args(<<"f">>, <<1, 2>>, "None")} |-> r] : r \in LeftOver}
    /\ now = SESSION_START
    /\ advances = 0
    /\ policy \in Policies
    /\ host \in Hosts
    /\ signal \in (IF HasLastModified(host) THEN Signals ELSE {None})
    /\ opcount = 0
    /\ last = NoResult
    /\ unchanged = {}
    /\ keyrun = Idle
    /\ scope = Idle /\ caller = Idle /\ files = Idle
    /\ procs = Idle /\ trip = Idle /\ attached = Idle
    /\ norm = Idle /\ disk = Idle

Next ==
    \/ \E n \in Names, a \in CallArgs, r \in Values \cup {"raise"} : Call(n, a, r)
    \/ \E n \in Names, a \in CallArgs, kw \in {"None", "kw"}, v \in Seeds,
          ts \in Timestamps(now) : Memoize(n, a, kw, v, ts)
    \/ \E n \in Names, a \in CallArgs : InvalidateArgs(n, a)
    \/ \E n \in Names : InvalidateAll(n)
    \/ \E p \in Policies : SetPolicy(p)
    \/ \E d \in Delays : Advance(d)
    \/ \E sig \in Signals : SetSignal(sig)

Spec == Init /\ [][Next]_vars

----------------------------------------------------------------------------
(* Specification of key derivation: key_from_args applied to drawn tuples *)

RECURSIVE TuplesUpTo(_)
\* the positional argument tuples of at most n arguments
TuplesUpTo(n) ==
    IF n = 0 THEN {<<>>}
    ELSE LET shorter == TuplesUpTo(n - 1)
         IN  shorter \cup {Append(a, v) : a \in {x \in shorter : Len(x) = n - 1},
                                          v \in ArgVals}

KwArgs == {"None", "kw"}

KeyInit ==
    /\ keyrun \in {[pc |-> "drawn", name |-> n, a |-> a, b |-> b, kw |-> kw,
                    first |-> <<>>, again |-> <<>>, other |-> <<>>] :
                   n \in Names, a \in TuplesUpTo(MaxArity),
                   b \in TuplesUpTo(MaxArity), kw \in KwArgs}
    /\ store = NoRows
    /\ now = SESSION_START
    /\ advances = 0
    /\ policy = "session"
    /\ host = "api"
    /\ signal = None
    /\ opcount = 0
    /\ last = NoResult
    /\ unchanged = {}
    /\ scope = Idle /\ caller = Idle /\ files = Idle
    /\ procs = Idle /\ trip = Idle /\ attached = Idle
    /\ norm = Idle /\ disk = Idle

KeyRest == <<store, now, advances, policy, host, signal, opcount, last, unchanged,
             scope, caller, files, procs, trip, attached, norm, disk>>

\* key_from_args(a)
KeyFirst ==
    /\ keyrun.pc = "drawn"
    /\ keyrun' = [keyrun EXCEPT !.pc = "first",
                                !.first = key_from_args(keyrun.name, keyrun.a, "None")]
    /\ UNCHANGED KeyRest

\* key_from_args(a, kwargs) once more
KeyAgain ==
    /\ keyrun.pc = "first"
    /\ keyrun' = [keyrun EXCEPT !.pc = "again",
                                !.again = key_from_args(keyrun.name, keyrun.a, keyrun.kw)]
    /\ UNCHANGED KeyRest

\* key_from_args(b)
KeyOther ==
    /\ keyrun.pc = "again"
    /\ keyrun' = [keyrun EXCEPT !.pc = "done",
                                !.other = key_from_args(keyrun.name, keyrun.b, "None")]
    /\ UNCHANGED KeyRest

KeyNext == KeyFirst \/ KeyAgain \/ KeyOther

SpecKey == KeyInit /\ [][KeyNext]_vars

----------------------------------------------------------------------------
(* The wrapper at rest, for the specifications of the parts around it *)

\* a fresh wrapper on an empty backend, "session" setting, host with a source
AtRest ==
    /\ store = NoRows
    /\ now = SESSION_START
    /\ advances = 0
    /\ policy = "session"
    /\ host = "api"
    /\ signal = None
    /\ opcount = 0
    /\ last = NoResult
    /\ unchanged = {}

wrapper == <<store, now, advances, policy, host, signal, opcount, last, unchanged>>

----------------------------------------------------------------------------
(* Vocabulary of the properties *)

\* this step is a call of the wrapper
CallStep == opcount' = opcount + 1 /\ last'.op = "call"

\* the stored createdAt as a full timestamp (asked of recognized ones only)
CreatedAt(mtime) == IF mtime.kind = "datetime" THEN mtime.t ELSE mtime.t * Day + DateOffset

\* a createdAt of a recognized date/timestamp type
Recognized(mtime) == mtime.kind \in {"datetime", "date"}

\* the host supplies no last-modified signal: it has no source, or the
\* source has nothing to report
NoSignal == ~HasLastModified(host) \/ signal = None

\* the call did not return a stored value: the wrapped operation ran
Recomputed(r) == r.outcome \in {"miss", "raise"} /\ r.invoked = 1

\* every row but the one under key is as it was
OthersKept(key) ==
    /\ (DOMAIN store') \ {key} = (DOMAIN store) \ {key}
    /\ \A k \in (DOMAIN store) \ {key} : store'[k] = store[k]

\* b has the arguments of a in another order
Reordered(a, b) ==
    /\ a # b
    /\ Len(a) = Len(b)
    /\ \A v \in ArgVals : Cardinality({i \in 1..Len(a) : a[i] = v})
                          = Cardinality({i \in 1..Len(b) : b[i] = v})

----------------------------------------------------------------------------
(* C1 *)

\* C1 as claimed: once a call with arguments A has missed and stored its
\* result, a later call with the same A, with the policy setting (not
\* "always") and the last-modified signal unchanged since, returns the
\* stored value and does not invoke the wrapped operation.
C1_IdempotentHit_AsClaimed ==
    [][ (CallStep /\ last'.key \in unchanged /\ policy # "always")
        => /\ last'.outcome = "hit"
           /\ last'.invoked = 0
           /\ last'.rval = GetItem(store, last'.key).value ]_vars

----------------------------------------------------------------------------
(* C2 *)

\* the call finds no row under its key, or a row the check rejects
MissesOn(st, key, args) ==
    \/ ~Contains(st, key)
    \/ is_entry_valid(GetItem(st, key), args, host, signal, policy, now) = "False"

\* C2 as claimed: every call that is a cache miss (key absent, or entry
\* rejected) invokes the wrapped operation exactly once and writes the
\* backend exactly once.
C2_MissWritesOnce_AsClaimed ==
    [][ (CallStep /\ MissesOn(store, last'.key, last'.args))
        => /\ last'.invoked = 1
           /\ last'.writes = 1
           /\ Contains(store', last'.key)
           /\ GetItem(store', last'.key).value = last'.rval
           /\ last'.rval = last'.computed ]_vars

\* C2 amended: every call that is a cache miss invokes the wrapped operation
\* exactly once; when the wrapped operation returns, the call writes the
\* backend exactly once, under its own key, an entry holding the freshly
\* computed value, which is also the value returned, and no other row
\* changes; when the wrapped operation raises, nothing is written.
C2_MissComputesOnceWritesOnce ==
    [][ (CallStep /\ MissesOn(store, last'.key, last'.args))
        => /\ last'.invoked = 1
           /\ last'.outcome \in {"miss", "raise"}
           /\ last'.outcome = "miss" =>
                 /\ last'.writes = 1
                 /\ last'.computed \in Values
                 /\ last'.rval = last'.computed
                 /\ Contains(store', last'.key)
                 /\ GetItem(store', last'.key).value = last'.computed
                 /\ OthersKept(last'.key)
           /\ last'.outcome = "raise" => (last'.writes = 0 /\ store' = store) ]_vars

\* a call has missed on a stale entry, recomputed and stored
C2_Witness ==
    /\ last.op = "call"
    /\ last.outcome = "miss"
    /\ Recognized(last.found)
    /\ Contains(store, last.key)
    /\ GetItem(store, last.key).value = last.rval

----------------------------------------------------------------------------
(* C3 *)

\* C3: a call that is a cache hit leaves the backend as it was (same keys,
\* same rows and so the same createdAt), does not invoke the wrapped
\* operation, and returns the value of the stored entry.
C3_HitLeavesBackend ==
    [][ (CallStep /\ last'.outcome = "hit")
        => /\ store' = store
           /\ last'.writes = 0
           /\ last'.invoked = 0
           /\ Contains(store, last'.key)
           /\ last'.rval = GetItem(store, last'.key).value ]_vars

\* a call has returned the value of a stored entry
C3_Witness ==
    /\ last.op = "call"
    /\ last.outcome = "hit"
    /\ last.rval = GetItem(store, last.key).value

----------------------------------------------------------------------------
(* C4 *)

\* C4 as claimed: when the host supplies a last-modified signal L, the
\* entry found by a call is valid exactly when its createdAt, as a full
\* timestamp, is at or after L, whatever the policy setting is.
C4_LastModifiedPrecedence_AsClaimed ==
    [][ (/\ CallStep
         /\ HasLastModified(host) /\ Recognized(signal)
         /\ Contains(store, last'.key)
         /\ Recognized(GetItem(store, last'.key).mtime))
        => (last'.outcome = "hit"
              <=> CreatedAt(GetItem(store, last'.key).mtime) >= CreatedAt(signal)) ]_vars

----------------------------------------------------------------------------
(* C5 *)

\* C5 as claimed: with the setting "always" and no last-modified signal,
\* every call is a cache miss: each call invokes the wrapped operation.
C5_AlwaysNeverHits_AsClaimed ==
    [][ (CallStep /\ policy = "always" /\ NoSignal) => Recomputed(last') ]_vars

----------------------------------------------------------------------------
(* C6 *)

\* C6 as claimed: with the setting "session" and no last-modified signal,
\* an entry created before the session-start marker is invalid and one
\* created at or after it is valid.
C6_SessionThreshold_AsClaimed ==
    [][ (/\ CallStep /\ policy = "session" /\ NoSignal
         /\ Contains(store, last'.key)
         /\ Recognized(GetItem(store, last'.key).mtime))
        => LET createdAt == CreatedAt(GetItem(store, last'.key).mtime)
           IN  /\ createdAt < SESSION_START => Recomputed(last')
               /\ createdAt >= SESSION_START => last'.outcome = "hit" ]_vars

----------------------------------------------------------------------------
(* C7 *)

\* the threshold of the settings "daily" and "weekly" at instant t
Threshold(pol, t) == IF pol = "daily" THEN Midnight(t) ELSE t - Week

\* C7 as claimed: with the setting "daily" or "weekly" and no last-modified
\* signal, an entry is valid exactly when its createdAt is at or after the
\* threshold (local midnight of the current day; now minus 7 days).
C7_DailyWeeklyThreshold_AsClaimed ==
    [][ (/\ CallStep /\ policy \in {"daily", "weekly"} /\ NoSignal
         /\ Contains(store, last'.key)
         /\ Recognized(GetItem(store, last'.key).mtime))
        => LET createdAt == CreatedAt(GetItem(store, last'.key).mtime)
           IN  /\ createdAt < Threshold(policy, now) => Recomputed(last')
               /\ createdAt >= Threshold(policy, now) => last'.outcome = "hit" ]_vars

----------------------------------------------------------------------------
(* C8 *)

\* C8 as claimed: with no last-modified signal and a setting that is none
\* of always, session, daily, weekly, every entry with a recognized
\* createdAt is accepted: the call is a hit and nothing is raised.
C8_UnsetPolicyAccepts_AsClaimed ==
    [][ (/\ CallStep /\ NoSignal
         /\ policy \notin {"always", "session", "daily", "weekly"}
         /\ Contains(store, last'.key)
         /\ Recognized(GetItem(store, last'.key).mtime))
        => (last'.outcome = "hit" /\ last'.err = "none") ]_vars

----------------------------------------------------------------------------
(* C9 *)

\* C9: a call that finds an entry whose createdAt is missing or of no
\* recognized type, under any setting, signal and host, does exactly what
\* it does when the key is absent: it never returns the stored value, the
\* validity check raises nothing, the wrapped operation runs once and its
\* result replaces the entry.
C9_UnrecognizedNeverValidates ==
    [][ (/\ CallStep
         /\ Contains(store, last'.key)
         /\ ~Recognized(GetItem(store, last'.key).mtime))
        => /\ Recomputed(last')
           /\ last'.outcome = "miss" =>
                 /\ last'.err = "none"
                 /\ last'.writes = 1
                 /\ GetItem(store', last'.key)
                      = cache_entry(last'.computed, DateTime(now), None)
                 /\ last'.rval = last'.computed
                 /\ OthersKept(last'.key)
           /\ last'.outcome = "raise" => store' = store ]_vars

\* a call found an entry without a recognized createdAt and replaced it
C9_Witness ==
    /\ last.op = "call"
    /\ last.found.kind \in {"None", "str"}
    /\ last.outcome = "miss"
    /\ GetItem(store, last.key).mtime = DateTime(now)

----------------------------------------------------------------------------
(* C10 *)

\* C10: key_from_args applied twice to one positional argument tuple yields
\* the same key, whatever keyword arguments come with it, and applied to
\* two tuples that hold the same arguments in different order it yields
\* different keys.
C10_KeyDeterminismAndOrder ==
    keyrun.pc = "done" =>
        /\ keyrun.first = keyrun.again
        /\ Reordered(keyrun.a, keyrun.b) => keyrun.first # keyrun.other

\* the keys of (1, 2), of (1, 2) again and of (2, 1) have been derived
C10_Witness ==
    /\ keyrun.pc = "done"
    /\ keyrun.a = <<1, 2>>
    /\ keyrun.b = <<2, 1>>
    /\ keyrun.kw = "kw"
    /\ keyrun.first = <<"f", "(", "1", ",", " ", "2", ")">>

----------------------------------------------------------------------------
(* What the policy settings decide on a host that has last_modified(args) *)

\* On a host with a last_modified method, whatever the method returns: the
\* setting "always" rejects every entry, and "session", "daily" and
\* "weekly" accept exactly the entries created at or after their threshold.
PolicyDecides_WithLastModified ==
    [][ (/\ CallStep /\ HasLastModified(host)
         /\ Contains(store, last'.key)
         /\ Recognized(GetItem(store, last'.key).mtime))
        => LET createdAt == CreatedAt(GetItem(store, last'.key).mtime)
               threshold == IF policy = "session" THEN SESSION_START
                            ELSE Threshold(policy, now)
           IN  /\ policy = "always" => Recomputed(last')
               /\ policy \in {"session", "daily", "weekly"} =>
                     IF createdAt >= threshold THEN last'.outcome = "hit"
                     ELSE Recomputed(last') ]_vars

----------------------------------------------------------------------------
(* C13 *)

\* this step is an invalidate_args
InvalidateArgsStep == opcount' = opcount + 1 /\ last'.op = "invalidate_args"

\* what a call with arguments args of operation name would do on backend st
\* now, should the wrapped operation return fres
WouldDo(st, name, args, fres) ==
    CallEffect(st, key_from_args(name, args, "None"), args, host, signal,
               policy, now, fres).last

\* C13: invalidate_args(A) removes the row under key_from_args(A) and no
\* other row; a call with A that comes next finds no entry and invokes the
\* wrapped operation; and a call with other arguments does after the
\* invalidation what it would have done before it (a hit stays a hit).
C13_InvalidateArgsExact ==
    [][ /\ InvalidateArgsStep =>
            /\ \E n \in Names : last'.key = key_from_args(n, last'.args, "None")
            /\ ~Contains(store', last'.key)
            /\ OthersKept(last'.key)
            /\ \A n \in Names, a \in CallArgs, r \in Values :
                  key_from_args(n, a, "None") # last'.key
                  => WouldDo(store', n, a, r) = WouldDo(store, n, a, r)
        /\ (last.op = "invalidate_args" /\ CallStep /\ last'.key = last.key) =>
            (last'.found = Absent /\ Recomputed(last')) ]_vars

\* invalidate_args has removed an entry while a call with other arguments
\* is a hit
C13_Witness ==
    /\ last.op = "invalidate_args"
    /\ last.found # Absent
    /\ ~Contains(store, last.key)
    /\ \E n \in Names, a \in CallArgs :
          /\ key_from_args(n, a, "None") # last.key
          /\ WouldDo(store, n, a, "v1").outcome = "hit"

----------------------------------------------------------------------------
(* C15 *)

\* C15: when the wrapped operation raises during a miss, its exception
\* reaches the caller, the operation has been invoked once and not again,
\* and the backend is as it was: nothing written, the stale entry under
\* the key neither removed nor rewritten.
C15_FailedMissLeavesBackend ==
    [][ (CallStep /\ last'.outcome = "raise")
        => /\ MissesOn(store, last'.key, last'.args)
           /\ last'.err = "Exception"
           /\ last'.rval = "none"
           /\ last'.invoked = 1
           /\ last'.writes = 0
           /\ store' = store ]_vars

\* the wrapped operation has raised on a stale entry, which is still there
C15_Witness ==
    /\ last.op = "call"
    /\ last.outcome = "raise"
    /\ Recognized(last.found)
    /\ Contains(store, last.key)
    /\ GetItem(store, last.key).mtime = last.found

----------------------------------------------------------------------------
(* C20 *)

\* C20 as claimed: on a host that has no last_modified method, validating
\* an existing entry raises nothing and the policy setting alone decides:
\* "always" rejects, "session", "daily" and "weekly" accept exactly the
\* entries created at or after their threshold.
C20_NoSourceIsLegal_AsClaimed ==
    [][ (/\ CallStep /\ ~HasLastModified(host)
         /\ Contains(store, last'.key)
         /\ Recognized(GetItem(store, last'.key).mtime))
        => LET createdAt == CreatedAt(GetItem(store, last'.key).mtime)
               threshold == IF policy = "session" THEN SESSION_START
                            ELSE Threshold(policy, now)
           IN  /\ last'.outcome # "error"
               /\ policy = "always" => Recomputed(last')
               /\ policy \in {"session", "daily", "weekly"} =>
                     IF createdAt >= threshold THEN last'.outcome = "hit"
                     ELSE Recomputed(last') ]_vars

----------------------------------------------------------------------------
(* C14: the backend handles of the wrapper operations *)

MaxHandles == 3

\* the operations of cached_wrapper that open the backend
Operations ==
    {"call", "has_key", "invalidate_key", "invalidate_args", "invalidate_all", "memoize"}

\* the context manager an operation puts its handle in: invalidate_all
\* writes "with self.cache_store() as store", the others
\* "with closing(self.cache_store()) as store"
Manager(op) == IF op = "invalidate_all" THEN "Store" ELSE "closing"

\* __exit__ of the manager, on return and on an exception alike:
\* contextlib.closing calls thing.close(), Store.__exit__ is "pass"
Exit(manager, handle) == IF manager = "closing" THEN "closed" ELSE handle

\* how the body of an operation can end: __call__ also when is_entry_valid
\* or the wrapped operation raises, every operation when the backend raises
Endings == {"return", "raise"}

ScopeInit ==
    /\ scope = [pc |-> "idle", op |-> "none", ending |-> "none", handles |-> <<>>,
                invoked |-> 0, backend |-> "none"]
    /\ AtRest
    /\ keyrun = Idle /\ caller = Idle /\ files = Idle
    /\ procs = Idle /\ trip = Idle /\ attached = Idle
    /\ norm = Idle /\ disk = Idle

ScopeRest == <<wrapper, keyrun, caller, files, procs, trip, attached, norm, disk>>

\* self.cache_store() hands out a handle and the with statement is entered
Enter(op) ==
    /\ scope.pc = "idle"
    /\ Len(scope.handles) < MaxHandles
    /\ scope' = [pc |-> "body", op |-> op, ending |-> "none",
                 handles |-> Append(scope.handles, "open"),
                 invoked |-> 0, backend |-> "cache_store"]
    /\ UNCHANGED ScopeRest

\* a plausible slip: when the backend cannot be opened the operation goes
\* on with a volatile one
OpenFailure_fallback(sc, op) ==
    [pc |-> "body", op |-> op, ending |-> "none",
     handles |-> Append(sc.handles, "open"), invoked |-> 0, backend |-> "volatile"]

\* self.cache_store() raises: the with statement is never entered and the
\* exception leaves the operation
OpenFailure(sc, op) ==
    [pc |-> "idle", op |-> op, ending |-> "OpenError",
     handles |-> sc.handles, invoked |-> 0, backend |-> "none"]

\* an operation is asked for and its backend cannot be opened or created
OpenFails(op) ==
    /\ scope.pc = "idle"
    /\ Len(scope.handles) < MaxHandles
    /\ scope' = OpenFailure(scope, op)
    /\ UNCHANGED ScopeRest

\* __call__ on a miss: rval = self.function(self.instance, *args)
Invoke ==
    /\ scope.pc = "body"
    /\ scope.op = "call"
    /\ scope.invoked = 0
    /\ scope' = [scope EXCEPT !.invoked = 1]
    /\ UNCHANGED ScopeRest

\* the body ends and the with statement is left through __exit__
Leave(ending) ==
    /\ scope.pc = "body"
    /\ scope' = [scope EXCEPT
                   !.pc = "idle",
                   !.ending = ending,
                   !.handles[Len(scope.handles)] = Exit(Manager(scope.op), @)]
    /\ UNCHANGED ScopeRest

ScopeNext ==
    \/ \E op \in Operations : Enter(op)
    \/ \E op \in Operations : OpenFails(op)
    \/ Invoke
    \/ \E e \in Endings : Leave(e)

SpecScope == ScopeInit /\ [][ScopeNext]_vars

\* C14 as claimed: whenever control is back with the caller, on return and
\* on an exception, every handle a wrapper operation has opened is closed.
C14_ScopedAccess_AsClaimed ==
    scope.pc = "idle" =>
        \A i \in 1..Len(scope.handles) : scope.handles[i] = "closed"

----------------------------------------------------------------------------
(* C28 *)

\* C28: when the backend of a call cannot be opened, the exception is with
\* the caller at once, the wrapped operation has not been invoked, no
\* handle has been opened, and no operation ever runs on a volatile
\* backend put in the place of the one that failed.
C28_OpenFailurePropagates ==
    /\ scope.ending = "OpenError" =>
          /\ scope.pc = "idle"
          /\ scope.invoked = 0
          /\ scope.backend = "none"
    /\ scope.pc = "body" => scope.backend = "cache_store"
    /\ scope.backend # "volatile"

\* after a call that went through, the backend of the next call could not
\* be opened
C28_Witness ==
    /\ scope.pc = "idle"
    /\ scope.op = "call"
    /\ scope.ending = "OpenError"
    /\ scope.invoked = 0
    /\ scope.handles = <<"closed">>

----------------------------------------------------------------------------
(* C11, C12: several cached operations on one backend *)

MaxShared == 3

\* cached operations whose hosts hand out the same backend: the function f
\* of class A, a function of the same name in class B, and g and f2 of
\* class A
SharedOps ==
    { [cls |-> "A", name |-> <<"f">>],
      [cls |-> "B", name |-> <<"f">>],
      [cls |-> "A", name |-> <<"g">>],
      [cls |-> "A", name |-> <<"f", "2">>] }

\* what self.function(self.instance, *args) returns: each operation computes,
\* for each argument tuple, a value no other operation or tuple gives
Computes(o, args) ==
    IF o.cls = "A" /\ o.name = <<"f">>
    THEN (IF args = <<1, 2>> THEN "A.f(1, 2)" ELSE "A.f(2, 1)")
    ELSE IF o.cls = "B"
    THEN (IF args = <<1, 2>> THEN "B.f(1, 2)" ELSE "B.f(2, 1)")
    ELSE IF o.name = <<"f", "2">>
    THEN (IF args = <<1, 2>> THEN "A.f2(1, 2)" ELSE "A.f2(2, 1)")
    ELSE (IF args = <<1, 2>> THEN "A.g(1, 2)" ELSE "A.g(2, 1)")

\* the values operation o computes
ValuesOf(o) == {Computes(o, a) : a \in CallArgs}

SharedInit ==
    /\ AtRest
    /\ caller = [pc |-> "none", op |-> [cls |-> "none", name |-> <<>>], args |-> <<>>,
                 removed |-> 0]
    /\ keyrun = Idle /\ scope = Idle /\ files = Idle
    /\ procs = Idle /\ trip = Idle /\ attached = Idle
    /\ norm = Idle /\ disk = Idle

SharedRest == <<now, advances, policy, host, signal, unchanged,
                keyrun, scope, files, procs, trip, attached, norm, disk>>

\* cached_wrapper(o.function, instance, o.cls, cache_store)(*args)
SharedCall(o, args) ==
    /\ opcount < MaxShared
    /\ LET effect == CallEffect(store, key_from_args(o.name, args, "None"), args,
                                host, signal, policy, now, Computes(o, args))
       IN  store' = effect.store /\ last' = effect.last
    /\ caller' = [pc |-> "called", op |-> o, args |-> args, removed |-> 0]
    /\ opcount' = opcount + 1
    /\ UNCHANGED SharedRest

\* cached_wrapper(o.function, instance, o.cls, cache_store).invalidate_all()
SharedInvalidateAll(o) ==
    /\ opcount < MaxShared
    /\ LET prefix == rstrip(key_from_args(o.name, <<>>, "None"), {",", ")"})
           doomed == {k \in DOMAIN store : startswith(k, prefix)}
       IN  /\ store' = [k \in (DOMAIN store) \ doomed |-> store[k]]
           /\ last' = Result("invalidate_all", <<>>, prefix, Absent, "deleted",
                             "none", "none", "none", 0, 0)
           /\ caller' = [pc |-> "invalidated", op |-> o, args |-> <<>>,
                         removed |-> Cardinality(doomed)]
    /\ opcount' = opcount + 1
    /\ UNCHANGED SharedRest

SharedNext ==
    \/ \E o \in SharedOps, a \in CallArgs : SharedCall(o, a)
    \/ \E o \in SharedOps : SharedInvalidateAll(o)

SpecShared == SharedInit /\ [][SharedNext]_vars

\* C11 as claimed: the key of a call differs from the key of every call of
\* another operation or with another argument tuple, and the value a call
\* returns is one computed for its own operation and its own arguments.
C11_NoCollision_AsClaimed ==
    caller.pc = "called" =>
        /\ \A o \in SharedOps, a \in CallArgs :
              (o # caller.op \/ a # caller.args)
              => key_from_args(o.name, a, "None") # last.key
        /\ last.rval = Computes(caller.op, caller.args)

\* C12 as claimed: invalidate_all on the wrapper of operation f removes
\* every entry that holds a value of f, and leaves every entry that holds a
\* value of another operation in place, value and createdAt as they were.
C12_BulkInvalidationExact_AsClaimed ==
    [][ (opcount' = opcount + 1 /\ caller'.pc = "invalidated")
        => \A k \in DOMAIN store :
              IF loads(store[k]).value \in ValuesOf(caller'.op)
              THEN ~Contains(store', k)
              ELSE Contains(store', k) /\ store'[k] = store[k] ]_vars

\* what does hold of invalidate_all: the rows it removes are exactly those
\* whose key begins with the name of the operation and "("
InvalidateAll_ByNameOnly ==
    [][ (opcount' = opcount + 1 /\ caller'.pc = "invalidated")
        => \A k \in DOMAIN store :
              IF \E o \in SharedOps, a \in CallArgs :
                    o.name = caller'.op.name /\ k = key_from_args(o.name, a, "None")
              THEN ~Contains(store', k)
              ELSE Contains(store', k) /\ store'[k] = store[k] ]_vars

----------------------------------------------------------------------------
(* C16: clear_cache *)

\* conf.kegg_dir, the compiled-in default directory
kegg_dir == "kegg_dir"

\* values of conf.params["cache.path"]: the default directory itself, a
\* symbolic link to it, and a directory of the user's
Paths == {"kegg_dir", "link", "elsewhere"}

\* os.path.realpath
realpath(path) == IF path = "link" THEN "kegg_dir" ELSE path

\* the file names of a directory, one per extension that occurs
Extensions == {"sqlite3", "keg", "xml", "png", "txt"}

\* the glob patterns of clear_cache in the order of its loops
Patterns == <<"sqlite3", "keg", "xml", "png">>

\* a plausible slip: the comparison the wrong way round
AfterCheck_inverted(path) ==
    IF realpath(path) = realpath(kegg_dir) THEN "raised" ELSE "removing"

\* the test at the head of clear_cache: raise, or go on to the first loop
AfterCheck(path) ==
    IF realpath(path) # realpath(kegg_dir) THEN "raised" ELSE "removing"

ClearInit ==
    /\ files \in {[pc |-> "called", loop |-> 1, path |-> p, err |-> "none",
                   dirs |-> d, before |-> d] :
                  p \in Paths,
                  d \in [{"kegg_dir", "elsewhere"} -> SUBSET Extensions]}
    /\ AtRest
    /\ keyrun = Idle /\ scope = Idle /\ caller = Idle
    /\ procs = Idle /\ trip = Idle /\ attached = Idle
    /\ norm = Idle /\ disk = Idle

ClearRest == <<wrapper, keyrun, scope, caller, procs, trip, attached, norm, disk>>

\* path = conf.params["cache.path"]; if os.path.realpath(path) != ...: raise
Check ==
    /\ files.pc = "called"
    /\ LET next == AfterCheck(files.path)
       IN  files' = [files EXCEPT !.pc = next,
                                  !.err = IF next = "raised" THEN "Exception" ELSE "none"]
    /\ UNCHANGED ClearRest

\* for name in glob.glob(os.path.join(path, "*." + pattern)): os.remove(name)
Remove ==
    /\ files.pc = "removing"
    /\ files' = [files EXCEPT
                   !.pc = IF files.loop = Len(Patterns) THEN "returned" ELSE "removing",
                   !.loop = IF files.loop = Len(Patterns) THEN @ ELSE @ + 1,
                   !.dirs[realpath(files.path)] = @ \ {Patterns[files.loop]}]
    /\ UNCHANGED ClearRest

ClearNext == Check \/ Remove

SpecClear == ClearInit /\ [][ClearNext]_vars

\* C16: when the configured cache path does not resolve to the default
\* directory, clear_cache removes no file of any directory, at no step, and
\* ends by raising an exception to its caller; the test is its first step,
\* so that no removal comes before it.
C16_UnsafePathGuard ==
    /\ realpath(files.path) # realpath(kegg_dir)
          => /\ files.dirs = files.before
             /\ files.pc \in {"called", "raised"}
             /\ files.pc = "raised" <=> files.err = "Exception"
    /\ files.pc = "called" => files.dirs = files.before

\* clear_cache has raised on a foreign directory that holds cache files
C16_Witness ==
    /\ files.pc = "raised"
    /\ files.path = "elsewhere"
    /\ files.err = "Exception"
    /\ files.dirs["elsewhere"] = Extensions
    /\ files.dirs["kegg_dir"] = Extensions

----------------------------------------------------------------------------
(* C17: two callers of one key inside __call__ at once *)

\* the callers; each has its own Sqlite3Store on the one cache file
Procs == {1, 2}

\* the key both call with, and the key of an entry neither touches
RaceKey == key_from_args(<<"f">>, <<1, 2>>, "None")
OtherKey == key_from_args(<<"f">>, <<2, 1>>, "None")

\* the positions in table (a sequence of <<key, value>> rows) of key's rows
RowsOf(table, key) == {i \in 1..Len(table) : table[i][1] = key}

\* the table without the rows of key
RECURSIVE Without(_, _)
Without(table, key) ==
    IF table = <<>> THEN <<>>
    ELSE IF Head(table)[1] = key THEN Without(Tail(table), key)
    ELSE <<Head(table)>> \o Without(Tail(table), key)

\* a plausible slip: a plain INSERT into a table whose key is not UNIQUE
InsertOrReplace_plain(table, key, row) == Append(table, <<key, row>>)

\* INSERT OR REPLACE INTO cache VALUES (?, ?) on key TEXT UNIQUE, commit
InsertOrReplace(table, key, row) == Append(Without(table, key), <<key, row>>)

\* SELECT value FROM cache WHERE key=?: the rows found
Select(table, key) == {table[i][2] : i \in RowsOf(table, key)}

\* the rows the shared file can hold when the callers arrive
RaceTables ==
    LET stale == <<RaceKey, dumps(cache_entry("v1", DateTime(SESSION_START - Day), None))>>
        other == <<OtherKey, dumps(cache_entry("v2", DateTime(SESSION_START), None))>>
    IN  {<<>>, <<stale>>, <<other>>, <<other, stale>>}

RaceInit ==
    /\ procs \in {[table |-> t, before |-> t,
                   pc |-> [p \in Procs |-> "called"],
                   rval |-> [p \in Procs |-> "none"],
                   invoked |-> [p \in Procs |-> 0],
                   readafter |-> [p \in Procs |-> 0],
                   order |-> <<>>] : t \in RaceTables}
    /\ AtRest
    /\ keyrun = Idle /\ scope = Idle /\ caller = Idle
    /\ files = Idle /\ trip = Idle /\ attached = Idle
    /\ norm = Idle /\ disk = Idle

RaceRest == <<wrapper, keyrun, scope, caller, files, trip, attached, norm, disk>>

\* key not in store; entry = store[key]; self.is_entry_valid(entry, args)
Read(p) ==
    /\ procs.pc[p] = "called"
    /\ LET found == Select(procs.table, RaceKey)
           valid == \E r \in found :
                       is_entry_valid(loads(r), <<1, 2>>, host, signal, policy, now) = "True"
       IN  procs' = [procs EXCEPT
                       !.pc[p] = IF valid THEN "hit" ELSE "missed",
                       !.rval[p] = IF valid THEN loads(CHOOSE r \in found : TRUE).value ELSE "none",
                       !.readafter[p] = Len(procs.order)]
    /\ UNCHANGED RaceRest

\* rval = self.function(self.instance, *args)
Compute(p, v) ==
    /\ procs.pc[p] = "missed"
    /\ procs' = [procs EXCEPT !.pc[p] = "computed", !.rval[p] = v,
                              !.invoked[p] = @ + 1]
    /\ UNCHANGED RaceRest

\* store[key] = cache_entry(rval, datetime.now(), None)
Write(p) ==
    /\ procs.pc[p] = "computed"
    /\ procs' = [procs EXCEPT
                   !.table = InsertOrReplace(@, RaceKey,
                                 dumps(cache_entry(procs.rval[p], DateTime(now), None))),
                   !.pc[p] = "wrote",
                   !.order = Append(@, p)]
    /\ UNCHANGED RaceRest

RaceNext ==
    \/ \E p \in Procs : Read(p)
    \/ \E p \in Procs, v \in Values : Compute(p, v)
    \/ \E p \in Procs : Write(p)

SpecRace == RaceInit /\ [][RaceNext]_vars

\* C17: a caller that reads before any write misses, and each caller that
\* misses invokes the wrapped operation once; from the first write on the
\* table holds exactly one row under the key, the whole row of whichever
\* caller wrote last; no key ever has two rows, and the rows of other keys
\* stay as they were.
C17_LastWriterWins ==
    /\ \A p \in Procs :
          /\ (procs.pc[p] # "called" /\ procs.readafter[p] = 0)
                => procs.pc[p] \in {"missed", "computed", "wrote"}
          /\ procs.pc[p] \in {"computed", "wrote"} => procs.invoked[p] = 1
          /\ procs.pc[p] \in {"called", "missed", "hit"} => procs.invoked[p] = 0
    /\ \A k \in {RaceKey, OtherKey} : Cardinality(RowsOf(procs.table, k)) <= 1
    /\ Select(procs.table, OtherKey) = Select(procs.before, OtherKey)
    /\ procs.order = <<>> => procs.table = procs.before
    /\ procs.order # <<>> =>
          LET winner == procs.order[Len(procs.order)]
          IN  Select(procs.table, RaceKey) =
                 {dumps(cache_entry(procs.rval[winner], DateTime(now), None))}

\* both callers read before either wrote, computed different values, and
\* both have written
C17_Witness ==
    /\ procs.pc = [p \in Procs |-> "wrote"]
    /\ procs.readafter = [p \in Procs |-> 0]
    /\ procs.order = <<2, 1>>
    /\ procs.rval[1] = "v1" /\ procs.rval[2] = "v2"
    /\ Select(procs.before, RaceKey) # {}
    /\ Select(procs.table, RaceKey) = {dumps(cache_entry("v1", DateTime(now), None))}

----------------------------------------------------------------------------
(* C18: an entry stored in a backend and read again *)

Backends == {"Sqlite3Store", "DictStore"}

\* the item methods a backend class defines. DictStore(Store, DictMixin)
\* defines __init__ and close only, and DictMixin builds on __getitem__,
\* __setitem__, __delitem__ and keys() of its subclass without defining them
Defines(backend) ==
    IF backend = "Sqlite3Store"
    THEN {"__getitem__", "__setitem__", "__delitem__", "keys", "close"}
    ELSE {"close"}

\* values of the wrapped operations: flat and nested mappings
Mappings ==
    { [name |-> "hsa"],
      [name |-> "hsa", genes |-> [first |-> <<1, 2>>, rest |-> [n |-> 0]]],
      [entries |-> <<>>] }

\* timestamps a cache_entry is made with
Mtimes ==
    { None, DateTime(SESSION_START), DateTime(SESSION_START - 1),
      Date(DayOf(SESSION_START)) }

TripInit ==
    /\ trip \in {[pc |-> "made", backend |-> b, key |-> k,
                  entry |-> cache_entry(v, m, None),
                  rows |-> r, before |-> r, asked |-> "none",
                  got |-> cache_entry(<<>>, None, None), err |-> "none"] :
                 b \in Backends, k \in {RaceKey, OtherKey}, v \in Mappings, m \in Mtimes,
                 r \in {NoRows,
                        [x \in {RaceKey} |-> dumps(cache_entry([name |-> "old"], None, None))]}}
    /\ AtRest
    /\ keyrun = Idle /\ scope = Idle /\ caller = Idle
    /\ files = Idle /\ procs = Idle /\ attached = Idle
    /\ norm = Idle /\ disk = Idle

TripRest == <<wrapper, keyrun, scope, caller, files, procs, attached, norm, disk>>

\* store[key] = entry
StoreEntry ==
    /\ trip.pc = "made"
    /\ trip' = IF "__setitem__" \in Defines(trip.backend)
               THEN [trip EXCEPT !.pc = "stored", !.asked = "set",
                                 !.rows = SetItem(@, trip.key, trip.entry)]
               ELSE [trip EXCEPT !.pc = "raised", !.asked = "set", !.err = "TypeError"]
    /\ UNCHANGED TripRest

\* store[key]
ReadEntry ==
    /\ trip.pc = "stored"
    /\ trip' = IF "__getitem__" \in Defines(trip.backend)
               THEN [trip EXCEPT !.pc = "read", !.asked = "get",
                                 !.got = GetItem(trip.rows, trip.key)]
               ELSE [trip EXCEPT !.pc = "raised", !.asked = "get", !.err = "TypeError"]
    /\ UNCHANGED TripRest

\* del store[key], as invalidate_key does it, on the backend as it was found
DeleteEntry ==
    /\ trip.pc = "made"
    /\ trip' = IF "__delitem__" \in Defines(trip.backend)
               THEN [trip EXCEPT !.pc = "deleted", !.asked = "del",
                                 !.rows = DelItem(@, trip.key)]
               ELSE [trip EXCEPT !.pc = "raised", !.asked = "del", !.err = "TypeError"]
    /\ UNCHANGED TripRest

TripNext == StoreEntry \/ ReadEntry \/ DeleteEntry

SpecTrip == TripInit /\ [][TripNext]_vars

\* C18 as claimed: on both backends an entry can be stored and read again,
\* and the entry read has the value and the createdAt of the one stored.
C18_RoundTrip_AsClaimed ==
    /\ trip.asked \in {"set", "get"} => trip.pc # "raised"
    /\ trip.pc = "read" =>
          /\ trip.got.value = trip.entry.value
          /\ trip.got.mtime = trip.entry.mtime

\* what does hold: the round trip through Sqlite3Store
RoundTrip_Sqlite3Store ==
    trip.backend = "Sqlite3Store" =>
        /\ trip.pc # "raised"
        /\ trip.pc = "read" => trip.got = trip.entry

----------------------------------------------------------------------------
(* C19: the descriptors bind a cached operation to a host instance *)

MaxAccess == 3

\* the descriptor classes, and the cached operations of the host class
Descriptors == {"cached_method", "bget_cached_method"}
Methods == {"f", "g"}

\* attributes a host instance can come with
HostAttrs == {"cache_store", "last_modified"}

\* the builtin hasattr(object, name) called with these arguments: the call
\* in get_cache_store that looks for "_cached_method_cache" passes the name
\* only, and hasattr of one argument raises TypeError
hasattr(arguments, attrs) ==
    IF Len(arguments) # 2 THEN "TypeError"
    ELSE IF arguments[2] \in attrs THEN "True" ELSE "False"

\* cached_method.get_cache_store(instance, owner): the backend of the
\* wrapper, the attributes of the instance afterwards, the exception raised
get_cache_store(attrs) ==
    IF hasattr(<<"instance", "cache_store">>, attrs) = "True"
    THEN [backend |-> "cache_store", attrs |-> attrs, err |-> "none"]
    ELSE LET has == hasattr(<<"_cached_method_cache">>, attrs)
         IN  IF has = "TypeError"
             THEN [backend |-> "none", attrs |-> attrs, err |-> "TypeError"]
             ELSE IF has = "False"
             THEN [backend |-> "_cached_method_cache",
                   attrs |-> attrs \cup {"_cached_method_cache"}, err |-> "none"]
             ELSE [backend |-> "_cached_method_cache", attrs |-> attrs, err |-> "none"]

\* bget_cached_method.get_last_modified(instance, owner)
get_last_modified(attrs) ==
    IF hasattr(<<"instance", "last_modified">>, attrs) = "True"
    THEN "last_modified" ELSE "None"

AttachInit ==
    /\ attached \in {[attrs |-> a, log |-> <<>>] : a \in SUBSET HostAttrs}
    /\ AtRest
    /\ keyrun = Idle /\ scope = Idle /\ caller = Idle
    /\ files = Idle /\ procs = Idle /\ trip = Idle
    /\ norm = Idle /\ disk = Idle

AttachRest == <<wrapper, keyrun, scope, caller, files, procs, trip, norm, disk>>

\* instance.method: descriptor.__get__(instance, owner)
Access(descriptor, method) ==
    /\ Len(attached.log) < MaxAccess
    /\ LET got == get_cache_store(attached.attrs)
           wrapped ==
               [method |-> method, descriptor |-> descriptor,
                backend |-> got.backend, err |-> got.err,
                \* get_cache_store has run in this access
                resolved |-> TRUE,
                \* return cached_wrapper(...): an object made in this access,
                \* numbered by the access that made it (0: none, it raised)
                wrapper |-> IF got.err = "none" THEN Len(attached.log) + 1 ELSE 0,
                last_modified |->
                    IF got.err = "none" /\ descriptor = "bget_cached_method"
                    THEN get_last_modified(got.attrs) ELSE "None"]
       IN  attached' = [attrs |-> got.attrs, log |-> Append(attached.log, wrapped)]
    /\ UNCHANGED AttachRest

AttachNext == \E d \in Descriptors, m \in Methods : Access(d, m)

SpecAttach == AttachInit /\ [][AttachNext]_vars

\* C19 as claimed: on a host that has no cache_store, the first access of a
\* cached operation raises nothing and leaves a private backend attached to
\* the instance, and every access, of this or another cached operation,
\* gets that one backend.
C19_PrivateBackendAttached_AsClaimed ==
    ("cache_store" \notin attached.attrs /\ attached.log # <<>>)
    => /\ "_cached_method_cache" \in attached.attrs
       /\ \A i \in 1..Len(attached.log) :
             /\ attached.log[i].err = "none"
             /\ attached.log[i].backend = "_cached_method_cache"

----------------------------------------------------------------------------
(* C21 *)

\* C21 as claimed, on a host that exposes its backend: of the accesses of
\* one cached operation on the host instance, the first resolves the
\* backend and makes the wrapper, and every later one returns that same
\* wrapper and resolves nothing.
C21_BindsOnce_AsClaimed ==
    \A i, j \in 1..Len(attached.log) :
        (/\ "cache_store" \in attached.attrs
         /\ i < j
         /\ attached.log[i].method = attached.log[j].method
         /\ attached.log[i].descriptor = attached.log[j].descriptor)
        => /\ attached.log[j].wrapper = attached.log[i].wrapper
           /\ ~attached.log[j].resolved

----------------------------------------------------------------------------
(* C22 *)

\* this step is a wrapper operation that has written an entry
WriteStep == opcount' = opcount + 1 /\ last'.writes = 1

----------------------------------------------------------------------------
(* C23: a bare date in the validity check *)

\* the days of the entries, and the times of day of entries and clock
NormDays == {9, 10, 11}
TimesOfDay == {0, 1, 2, 1800, DateOffset, DateOffset + 1}

\* is_entry_valid, first statement: the createdAt as a full timestamp.
\* A datetime stays; a date d becomes datetime(d.year, d.month, d.day, 1, 1, 1)
Normalized(mtime) ==
    IF IsDateTime(mtime) THEN mtime.t ELSE mtime.t * Day + DateOffset

NormInit ==
    /\ norm \in {[pc |-> "drawn", mtime |-> m, clock |-> 17 * Day + s, setting |-> p,
                  normalized |-> 0, verdict |-> "none"] :
                 m \in {Date(d) : d \in NormDays}
                       \cup {DateTime(10 * Day + s2) : s2 \in {0, 1800}},
                 s \in TimesOfDay, p \in {"session", "daily", "weekly"}}
    /\ AtRest
    /\ keyrun = Idle /\ scope = Idle /\ caller = Idle /\ files = Idle
    /\ procs = Idle /\ trip = Idle /\ attached = Idle /\ disk = Idle

NormRest == <<wrapper, keyrun, scope, caller, files, procs, trip, attached, disk>>

\* the isinstance tests on entry.mtime
Normalize ==
    /\ norm.pc = "drawn"
    /\ norm' = [norm EXCEPT !.pc = "normalized", !.normalized = Normalized(norm.mtime)]
    /\ UNCHANGED NormRest

\* the rest of is_entry_valid, on a host whose source reports nothing
Compare ==
    /\ norm.pc = "normalized"
    /\ norm' = [norm EXCEPT
                  !.pc = "compared",
                  !.verdict = is_entry_valid(cache_entry("v1", norm.mtime, None), <<1, 2>>,
                                             "api", None, norm.setting, norm.clock)]
    /\ UNCHANGED NormRest

NormNext == Normalize \/ Compare

SpecNorm == NormInit /\ [][NormNext]_vars

\* the threshold of the setting at instant t
ThresholdAt(setting, t) ==
    IF setting = "session" THEN SESSION_START ELSE Threshold(setting, t)

\* C23 as claimed: a createdAt that is a bare date is made 00:00:01 of that
\* day, one second after the start of the day, and the comparison with the
\* threshold is made with that instant.
C23_BareDatePlusOneSecond_AsClaimed ==
    (norm.pc # "drawn" /\ norm.mtime.kind = "date")
    => /\ norm.normalized = norm.mtime.t * Day + 1
       /\ norm.pc = "compared" =>
             (norm.verdict = "True"
              <=> norm.mtime.t * Day + 1 >= ThresholdAt(norm.setting, norm.clock))

\* what the check does with a bare date: 01:01:01 of that day
BareDate_OneHourOneMinuteOneSecond ==
    (norm.pc # "drawn" /\ norm.mtime.kind = "date")
    => /\ norm.normalized = norm.mtime.t * Day + 3600 + 60 + 1
       /\ norm.pc = "compared" =>
             (norm.verdict = "True"
              <=> norm.normalized >= ThresholdAt(norm.setting, norm.clock))

----------------------------------------------------------------------------
(* C24, C25, C30: what the call after a write does *)

\* the settings that accept an entry stamped now
Accepting == {"session", "daily", "weekly"}

\* a call with args made right now on backend st returns value from the
\* backend and does not invoke the wrapped operation, whatever that would do
HitsWith(st, key, args, value) ==
    \A r \in Values \cup {"raise"} :
        LET next == CallEffect(st, key, args, host, signal, policy, now, r).last
        IN  next.outcome = "hit" /\ next.rval = value /\ next.invoked = 0

\* a step keeps to what C24 says of calls on rejected entries
StaleIsMissStep ==
    (/\ CallStep
     /\ Contains(store, last'.key)
     /\ is_entry_valid(GetItem(store, last'.key), last'.args, host, signal,
                       policy, now) = "False"
     /\ last'.outcome # "raise")
    => /\ last'.outcome = "miss"
       /\ last'.invoked = 1
       /\ last'.writes = 1
       /\ OthersKept(last'.key)
       /\ GetItem(store', last'.key) = cache_entry(last'.computed, DateTime(now), None)
       /\ policy \in Accepting
             => HitsWith(store', last'.key, last'.args, last'.computed)

\* C24 as claimed: a call that finds an entry the check rejects, and whose
\* wrapped operation returns, invokes that operation once and replaces the
\* entry under the same key by the new value stamped with the current time;
\* under "session", "daily" or "weekly" a call with the same arguments that
\* follows at once is a hit on it.
C24_StaleIsMiss_AsClaimed == [][ StaleIsMissStep ]_vars

\* what does hold: the same on hosts that have a last_modified method
StaleIsMiss_WithLastModified == [][ HasLastModified(host) => StaleIsMissStep ]_vars

\* a step keeps to what C25 says of the setting in force
SettingReadStep ==
    (/\ CallStep
     /\ Contains(store, last'.key)
     /\ IsDateTime(GetItem(store, last'.key).mtime)
     /\ GetItem(store, last'.key).mtime.t >= SESSION_START)
    => /\ policy = "always" => Recomputed(last')
       /\ policy = "session" =>
             /\ last'.outcome = "hit"
             /\ last'.rval = GetItem(store, last'.key).value

\* C25 as claimed: the setting in force at the call decides, whatever it
\* was when the entry was stored: on an entry the wrapper stamped in this
\* session a call misses under "always" and hits under "session".
C25_SettingReadAtCheck_AsClaimed == [][ SettingReadStep ]_vars

\* what does hold: the same on hosts that have a last_modified method
SettingRead_WithLastModified == [][ HasLastModified(host) => SettingReadStep ]_vars

\* a step keeps to what C30 says of memoize without a timestamp
PreSeedingStep ==
    (/\ opcount' = opcount + 1
     /\ last'.op = "memoize"
     /\ GetItem(store', last'.key).mtime = DateTime(now))
    => /\ \E n \in Names : last'.key = key_from_args(n, last'.args, "None")
       /\ GetItem(store', last'.key).value \in Seeds
       /\ policy \in Accepting
             => HitsWith(store', last'.key, last'.args,
                         GetItem(store', last'.key).value)

\* C30 as claimed: memoize without a timestamp stores the value under the
\* key a call with the same arguments derives, stamped with the current
\* time, so that under "session", "daily" or "weekly" the call that follows
\* returns the value and does not invoke the wrapped operation.
C30_PreSeeding_AsClaimed == [][ PreSeedingStep ]_vars

\* what does hold: the same on hosts that have a last_modified method
PreSeeding_WithLastModified == [][ HasLastModified(host) => PreSeedingStep ]_vars

----------------------------------------------------------------------------
(* C26 *)

\* C26 as claimed: on both backends, deleting a key that has no entry
\* raises nothing and leaves the backend as it was.
C26_DeleteAbsentIsNoOp_AsClaimed ==
    (trip.asked = "del" /\ ~Contains(trip.before, trip.key))
    => /\ trip.pc = "deleted"
       /\ trip.err = "none"
       /\ trip.rows = trip.before

\* what does hold: deleting from Sqlite3Store removes the row of the key
\* and nothing else, and is a no-op when the key has none
Delete_Sqlite3Store ==
    (trip.asked = "del" /\ trip.backend = "Sqlite3Store")
    => /\ trip.pc = "deleted"
       /\ trip.err = "none"
       /\ trip.rows = [k \in (DOMAIN trip.before) \ {trip.key} |-> trip.before[k]]
       /\ ~Contains(trip.before, trip.key) => trip.rows = trip.before

----------------------------------------------------------------------------
(* C27: the cache file across a crash *)

MaxDiskOps == 2
MaxCrashes == 1

\* the entries the operations store
DiskEntries == {cache_entry(v, DateTime(SESSION_START), None) : v \in Values}
DiskKeys == {RaceKey, OtherKey}

\* a plausible slip: the statement is left for a later commit
commit_deferred(file, view) == file

\* self.con.commit(): the file takes what the connection has executed
commit(file, view) == view

\* the rows after a set or a delete
Apply(rows, op) ==
    IF op.kind = "set" THEN SetItem(rows, op.key, op.entry) ELSE DelItem(rows, op.key)

NoOp == [kind |-> "none", key |-> <<>>, entry |-> cache_entry("none", None, None)]

DiskInit ==
    /\ disk = [file |-> NoRows, schema |-> FALSE, conn |-> "none", view |-> NoRows,
               pc |-> "idle", cur |-> NoOp, done |-> NoRows,
               ops |-> 0, crashes |-> 0, lost |-> 0]
    /\ AtRest
    /\ keyrun = Idle /\ scope = Idle /\ caller = Idle /\ files = Idle
    /\ procs = Idle /\ trip = Idle /\ attached = Idle /\ norm = Idle

DiskRest == <<wrapper, keyrun, scope, caller, files, procs, trip, attached, norm>>

\* Sqlite3Store.__init__: connect, CREATE TABLE IF NOT EXISTS,
\* CREATE INDEX IF NOT EXISTS, commit: rows already in the file stay
OpenFile ==
    /\ disk.conn = "none"
    /\ disk' = [disk EXCEPT !.conn = "open", !.schema = TRUE, !.view = disk.file]
    /\ UNCHANGED DiskRest

\* self.con.execute("INSERT OR REPLACE ...") or self.con.execute("DELETE ...")
Execute(op) ==
    /\ disk.conn = "open"
    /\ disk.pc = "idle"
    /\ disk.ops < MaxDiskOps
    /\ disk' = [disk EXCEPT !.pc = "executed", !.cur = op,
                            !.view = Apply(@, op), !.ops = @ + 1]
    /\ UNCHANGED DiskRest

\* self.con.commit(), the last statement of __setitem__ and __delitem__
Commit ==
    /\ disk.pc = "executed"
    /\ disk' = [disk EXCEPT !.pc = "idle", !.cur = NoOp,
                            !.file = commit(disk.file, disk.view),
                            !.done = Apply(@, disk.cur)]
    /\ UNCHANGED DiskRest

\* the process dies: what was executed and not committed is rolled back
Crash ==
    /\ disk.conn = "open"
    /\ disk.crashes < MaxCrashes
    /\ disk' = [disk EXCEPT !.conn = "none", !.pc = "idle", !.cur = NoOp,
                            !.view = NoRows, !.crashes = @ + 1,
                            !.lost = IF disk.pc = "executed" THEN @ + 1 ELSE @]
    /\ UNCHANGED DiskRest

DiskNext ==
    \/ OpenFile
    \/ \E k \in DiskKeys, e \in DiskEntries : Execute([kind |-> "set", key |-> k, entry |-> e])
    \/ \E k \in DiskKeys : Execute([kind |-> "del", key |-> k, entry |-> NoOp.entry])
    \/ Commit
    \/ Crash

SpecDisk == DiskInit /\ [][DiskNext]_vars

\* C27: whenever no set or delete is under way, before and after a crash,
\* the file holds exactly the rows of the sets and deletes that have
\* returned; a connection opened on the file, the first or a later one,
\* finds these rows, the schema statements having removed or altered none.
C27_CommittedBeforeReturn ==
    /\ disk.pc = "idle" => disk.file = disk.done
    /\ (disk.pc = "idle" /\ disk.conn = "open") =>
          /\ disk.schema
          /\ disk.view = disk.done

\* after a set that returned and an operation that a crash cut short before
\* its commit, the file has been opened again and holds the entry of the
\* first and nothing of the second
C27_Witness ==
    /\ disk.crashes = 1
    /\ disk.conn = "open"
    /\ disk.ops = 2
    /\ disk.lost = 1
    /\ Contains(disk.file, RaceKey)
    /\ ~Contains(disk.file, OtherKey)
    /\ disk.view = disk.file

----------------------------------------------------------------------------
(* C29 *)

\* C29: the prefix invalidate_all matches is the name of its operation
\* followed by the opening parenthesis, and the entries of an operation
\* whose name is longer and begins with that name stay in the backend,
\* value and createdAt as they were.
C29_PrefixEndsAtParenthesis ==
    [][ (opcount' = opcount + 1 /\ caller'.pc = "invalidated")
        => /\ last'.key = caller'.op.name \o <<"(">>
           /\ \A o \in SharedOps, a \in CallArgs :
                 LET k == key_from_args(o.name, a, "None")
                 IN  (/\ o.name # caller'.op.name
                      /\ startswith(o.name, caller'.op.name)
                      /\ Contains(store, k))
                     => Contains(store', k) /\ store'[k] = store[k] ]_vars

\* invalidate_all of f has removed an entry of f and has left one of f2
C29_Witness ==
    /\ caller.pc = "invalidated"
    /\ caller.op.name = <<"f">>
    /\ caller.removed = 1
    /\ DOMAIN store = {key_from_args(<<"f", "2">>, <<1, 2>>, "None")}
    /\ GetItem(store, key_from_args(<<"f", "2">>, <<1, 2>>, "None")).value = "A.f2(1, 2)"

====
